---- MODULE Spec2Model ----
(***************************************************************************)
(* A model of transmutedb's metadata-driven entity pipeline                *)
(* (src/src/transmutedb/flow/entity_builder.py) over the control tables of *)
(* src/src/transmutedb/ctl/schema.py.                                      *)
(*                                                                         *)
(* The database is the state: the two catalog tables, the created schemas, *)
(* and per entity the bronze, silver and gold tables and the surrogate-key *)
(* sequence.  Every public function of entity_builder.py is one action     *)
(* that runs all of the function's statements.  The connection is in       *)
(* autocommit mode (the code opens no transaction), so a statement that    *)
(* raises leaves the effects of the statements before it in place.         *)
(* build_type2_dimension is modelled a second time with one action per     *)
(* statement (calls[c] is the call running on connection c), for the       *)
(* specifications in which a storage failure interrupts a merge            *)
(* (SpecRetry) and in which two connections merge at the same time         *)
(* (SpecInterleaved, SpecIndependent).                                     *)
(*                                                                         *)
(* Cell values are strings; NULL is the distinguished value Null.          *)
(* Timestamps are readings of the clock `now`; NullTime is the NULL        *)
(* timestamp.  The clock advances (Tick) in SpecClock and stands still in  *)
(* Spec and SpecComposite.                                                 *)
(***************************************************************************)
EXTENDS Integers, Sequences, FiniteSets, TLC

VARIABLES
    entity_metadata,         \* ctl table entity_metadata: a sequence of rows
    entity_metadata_seq,     \* sequence entity_metadata_seq: the next value
    entity_column_metadata,  \* ctl table entity_column_metadata, in column_id order
    schemas,                 \* the schemas created so far
    bronze,                  \* bronze[e]: table bronze.<e>_bronze
    silver,                  \* silver[e]: table silver.<e>_silver
    gold,                    \* gold[e]: table gold.<e>
    key_seq,                 \* key_seq[e]: sequence <e>_key_seq (0: not created)
    now,                     \* the clock read by datetime.now() / CURRENT_TIMESTAMP
    result,                  \* what the last call returned or raised
    detected,                \* history: per entity, per business-key tuple, the
                             \* number of merges whose change detection matched it
    calls                    \* calls[c]: the build_type2_dimension call running
                             \* on connection c, statement by statement

vars == <<entity_metadata, entity_metadata_seq, entity_column_metadata, schemas,
          bronze, silver, gold, key_seq, now, result, detected, calls>>

----------------------------------------------------------------------------
(* Bounds of the model *)

\* rows of one submitted row-set
MaxRows == 2
\* readings of the clock
MaxClock == 1
\* a merge starts only while the next surrogate key is at most MaxKey
MaxKey == 3
\* the same for the product dimension
MaxProductKey == 4

----------------------------------------------------------------------------
(* Values *)

Null == "<NULL>"
NullTime == 0 - 1

EntityNames == {"customer", "product"}

IntLiterals == {"1", "2"}

Range(s) == {s[i] : i \in 1..Len(s)}

\* The indices of s, in order, that satisfy keep.
RECURSIVE SelectIdx(_, _, _)
SelectIdx(n, keep, acc) ==
    IF n = 0 THEN acc
    ELSE SelectIdx(n - 1, keep, IF n \in keep THEN <<n>> \o acc ELSE acc)

NoTable == [exists |-> FALSE, kind |-> "none", cols |-> <<>>, rows |-> <<>>]

\* The rows of a gold table are a set: each carries its surrogate key.
NoGold == [exists |-> FALSE, kind |-> "none", cols |-> <<>>, rows |-> {}]

\* What a call returned (status "ok", with its counts) or the error it raised
NoResult ==
    [op |-> "none", entity |-> "none", status |-> "none", returned |-> 0,
     total_rows |-> 0, new_rows |-> 0, updated_rows |-> 0, valid_rows |-> 0,
     invalid_rows |-> 0]

Raised(op, entity_name, status) ==
    [NoResult EXCEPT !.op = op, !.entity = entity_name, !.status = status]

----------------------------------------------------------------------------
(* Identifiers *)

\* The longest identifier _validate_identifier accepts
MaxIdentifierLength == 63

Letters ==
    {"a", "b", "c", "d", "e", "f", "g", "h", "i", "j", "k", "l", "m", "n", "o",
     "p", "q", "r", "s", "t", "u", "v", "w", "x", "y", "z", "A", "B", "C", "D",
     "E", "F", "G", "H", "I", "J", "K", "L", "M", "N", "O", "P", "Q", "R", "S",
     "T", "U", "V", "W", "X", "Y", "Z"}

Digits == {"0", "1", "2", "3", "4", "5", "6", "7", "8", "9"}

\* A name of 64 characters
LongName == "aaaaaaaaaaaaaaaaaaaaaaaaaaaaaaaaaaaaaaaaaaaaaaaaaaaaaaaaaaaaaaaa"

\* The characters of the names the model uses
Spelling(identifier) ==
    CASE identifier = "customer" -> <<"c", "u", "s", "t", "o", "m", "e", "r">>
      [] identifier = "product" -> <<"p", "r", "o", "d", "u", "c", "t">>
      [] identifier = "bronze" -> <<"b", "r", "o", "n", "z", "e">>
      [] identifier = "silver" -> <<"s", "i", "l", "v", "e", "r">>
      [] identifier = "gold" -> <<"g", "o", "l", "d">>
      [] identifier = "id" -> <<"i", "d">>
      [] identifier = "name" -> <<"n", "a", "m", "e">>
      [] identifier = "age" -> <<"a", "g", "e">>
      [] identifier = "code" -> <<"c", "o", "d", "e">>
      [] identifier = "vendor" -> <<"v", "e", "n", "d", "o", "r">>
      [] identifier = "bad name" -> <<"b", "a", "d", " ", "n", "a", "m", "e">>
      [] identifier = "first name" ->
             <<"f", "i", "r", "s", "t", " ", "n", "a", "m", "e">>
      [] identifier = "2nd" -> <<"2", "n", "d">>
      [] identifier = "customer\n" ->
             <<"c", "u", "s", "t", "o", "m", "e", "r", "\n">>
      [] identifier = LongName -> [i \in 1..(MaxIdentifierLength + 1) |-> "a"]

\* [a-zA-Z_][a-zA-Z0-9_]* matches all of chars
IsWord(chars) ==
    /\ Len(chars) >= 1
    /\ chars[1] \in Letters \cup {"_"}
    /\ \A i \in 1..Len(chars) : chars[i] \in Letters \cup Digits \cup {"_"}

\* re.match(r'^[a-zA-Z_][a-zA-Z0-9_]*$', identifier): $ matches at the end of
\* the string and also just before a newline that ends it
MatchesPattern(chars) ==
    \/ IsWord(chars)
    \/ /\ Len(chars) >= 2
       /\ chars[Len(chars)] = "\n"
       /\ IsWord(SubSeq(chars, 1, Len(chars) - 1))

\* TRUE when _validate_identifier returns, FALSE when it raises ValueError
_validate_identifier(identifier) ==
    /\ MatchesPattern(Spelling(identifier))
    /\ Len(Spelling(identifier)) <= MaxIdentifierLength

\* The name, interpolated into a statement, is read as one identifier
OneToken(identifier) == IsWord(Spelling(identifier))

----------------------------------------------------------------------------
(* The metadata catalog *)

HasEntity(entity_name) ==
    \E i \in 1..Len(entity_metadata) : entity_metadata[i].entity_name = entity_name

\* SELECT ... FROM entity_metadata WHERE entity_name = ?  (the name is UNIQUE)
EntityMeta(entity_name) ==
    entity_metadata[CHOOSE i \in 1..Len(entity_metadata) :
                        entity_metadata[i].entity_name = entity_name]

\* A variant without the WHERE clause: the columns of every entity
ColumnMetaUnfiltered(entity_id) == entity_column_metadata

\* SELECT ... FROM entity_column_metadata WHERE entity_id = ? ORDER BY column_id
ColumnMeta(entity_id) ==
    SelectSeq(entity_column_metadata, LAMBDA c : c.entity_id = entity_id)

ColumnNames(column_meta) == [i \in 1..Len(column_meta) |-> column_meta[i].column_name]

\* A variant that ignores the is_business_key flag: every column is a key
BusinessKeysUnflagged(column_meta) == ColumnNames(column_meta)

\* business_keys: the is_business_key columns, in catalog order
BusinessKeys(column_meta) ==
    ColumnNames(SelectSeq(column_meta, LAMBDA c : c.is_business_key))

\* description or '': None is stored as the empty string
OrEmpty(value) == IF value = Null THEN "" ELSE value

\* A variant that returns currval('entity_metadata_seq') on the update path too
update_entity_metadata_currval(entity_name, target_schema, entity_type, description) ==
    /\ IF HasEntity(entity_name)
       THEN /\ entity_metadata' =
                   [i \in 1..Len(entity_metadata) |->
                       IF entity_metadata[i].entity_name = entity_name
                       THEN [entity_metadata[i] EXCEPT
                                 !.target_schema = target_schema,
                                 !.entity_type = entity_type,
                                 !.description = OrEmpty(description)]
                       ELSE entity_metadata[i]]
            /\ entity_metadata_seq' = entity_metadata_seq
            /\ result' = [Raised("update_entity_metadata", entity_name, "ok")
                             EXCEPT !.returned = entity_metadata_seq - 1]
       ELSE /\ entity_metadata' =
                   Append(entity_metadata,
                          [entity_id |-> entity_metadata_seq,
                           entity_name |-> entity_name,
                           target_schema |-> target_schema,
                           entity_type |-> entity_type,
                           description |-> OrEmpty(description)])
            /\ entity_metadata_seq' = entity_metadata_seq + 1
            /\ result' = [Raised("update_entity_metadata", entity_name, "ok")
                             EXCEPT !.returned = entity_metadata_seq]
    /\ UNCHANGED <<entity_column_metadata, schemas, bronze, silver, gold,
                   key_seq, now, detected, calls>>

update_entity_metadata(entity_name, target_schema, entity_type, description) ==
    /\ IF HasEntity(entity_name)
       THEN \* UPDATE entity_metadata SET ... WHERE entity_name = ?; return existing[0]
            /\ entity_metadata' =
                   [i \in 1..Len(entity_metadata) |->
                       IF entity_metadata[i].entity_name = entity_name
                       THEN [entity_metadata[i] EXCEPT
                                 !.target_schema = target_schema,
                                 !.entity_type = entity_type,
                                 !.description = OrEmpty(description)]
                       ELSE entity_metadata[i]]
            /\ entity_metadata_seq' = entity_metadata_seq
            /\ result' = [Raised("update_entity_metadata", entity_name, "ok")
                             EXCEPT !.returned = EntityMeta(entity_name).entity_id]
       ELSE \* INSERT ... VALUES (nextval('entity_metadata_seq'), ...); return currval
            /\ entity_metadata' =
                   Append(entity_metadata,
                          [entity_id |-> entity_metadata_seq,
                           entity_name |-> entity_name,
                           target_schema |-> target_schema,
                           entity_type |-> entity_type,
                           description |-> OrEmpty(description)])
            /\ entity_metadata_seq' = entity_metadata_seq + 1
            /\ result' = [Raised("update_entity_metadata", entity_name, "ok")
                             EXCEPT !.returned = entity_metadata_seq]
    /\ UNCHANGED <<entity_column_metadata, schemas, bronze, silver, gold,
                   key_seq, now, detected, calls>>

\* A variant without the UNIQUE(entity_id, column_name) constraint
add_entity_column_unchecked(entity_name, column_name, data_type, is_nullable, is_business_key, track_history) ==
    /\ IF ~HasEntity(entity_name)
       THEN /\ result' = Raised("add_entity_column", entity_name, "EntityNotFound")
            /\ UNCHANGED entity_column_metadata
       ELSE /\ entity_column_metadata' =
                   Append(entity_column_metadata,
                          [entity_id |-> EntityMeta(entity_name).entity_id,
                           column_name |-> column_name,
                           data_type |-> data_type,
                           is_nullable |-> is_nullable,
                           is_business_key |-> is_business_key,
                           track_history |-> track_history])
            /\ result' = Raised("add_entity_column", entity_name, "ok")
    /\ UNCHANGED <<entity_metadata, entity_metadata_seq, schemas, bronze, silver,
                   gold, key_seq, now, detected, calls>>

add_entity_column(entity_name, column_name, data_type, is_nullable, is_business_key, track_history) ==
    /\ IF ~HasEntity(entity_name)
       THEN /\ result' = Raised("add_entity_column", entity_name, "EntityNotFound")
            /\ UNCHANGED entity_column_metadata
       ELSE LET entity_id == EntityMeta(entity_name).entity_id IN
            IF \E i \in 1..Len(entity_column_metadata) :
                   /\ entity_column_metadata[i].entity_id = entity_id
                   /\ entity_column_metadata[i].column_name = column_name
            THEN \* UNIQUE(entity_id, column_name) rejects the INSERT
                 /\ result' = Raised("add_entity_column", entity_name, "ConstraintError")
                 /\ UNCHANGED entity_column_metadata
            ELSE /\ entity_column_metadata' =
                        Append(entity_column_metadata,
                               [entity_id |-> entity_id,
                                column_name |-> column_name,
                                data_type |-> data_type,
                                is_nullable |-> is_nullable,
                                is_business_key |-> is_business_key,
                                track_history |-> track_history])
                 /\ result' = Raised("add_entity_column", entity_name, "ok")
    /\ UNCHANGED <<entity_metadata, entity_metadata_seq, schemas, bronze, silver,
                   gold, key_seq, now, detected, calls>>

----------------------------------------------------------------------------
(* Landing loader *)

\* pl.concat_str(original_columns, separator="|"): NULL if any value is NULL
RECURSIVE ConcatStr(_, _)
ConcatStr(row, cols) ==
    IF Len(cols) = 0 THEN ""
    ELSE IF \E i \in 1..Len(cols) : row[cols[i]] = Null THEN Null
    ELSE IF Len(cols) = 1 THEN row[cols[1]]
    ELSE row[cols[1]] \o "|" \o ConcatStr(row, Tail(cols))

\* hashlib.sha256(x.encode()).hexdigest(), taken to be free of collisions: the
\* digest is named by the string it digests.  map_elements skips NULL.
Sha256(x) == IF x = Null THEN Null ELSE "sha256(" \o x \o ")"

RowHash(row, original_columns) == Sha256(ConcatStr(row, original_columns))

\* source_data is [cols |-> <column names>, rows |-> <rows>], a row a function
\* from the column names to values.
load_bronze_entity(entity_name, source_data) ==
    LET df == [i \in 1..Len(source_data.rows) |->
                  [vals |-> source_data.rows[i],
                   _load_date |-> now,
                   _row_hash |-> RowHash(source_data.rows[i], source_data.cols)]]
    IN
    IF ~(_validate_identifier(entity_name) /\ _validate_identifier("bronze"))
    THEN /\ result' = Raised("load_bronze_entity", entity_name, "IdentifierError")
         /\ UNCHANGED <<entity_metadata, entity_metadata_seq, entity_column_metadata,
                        schemas, bronze, silver, gold, key_seq, now, detected, calls>>
    ELSE
    \* CREATE SCHEMA IF NOT EXISTS bronze
    /\ schemas' = schemas \cup {"bronze"}
    /\ IF ~OneToken(entity_name)
       THEN \* the table name does not parse
            /\ bronze' = bronze
            /\ result' = Raised("load_bronze_entity", entity_name, "ParserError")
       ELSE \* CREATE OR REPLACE TABLE bronze.<entity>_bronze AS SELECT * FROM df
            /\ bronze' = [bronze EXCEPT ![entity_name] =
                             [exists |-> TRUE, kind |-> "bronze",
                              cols |-> source_data.cols, rows |-> df]]
            /\ result' = [Raised("load_bronze_entity", entity_name, "ok") EXCEPT
                             !.total_rows = Len(df)]
    /\ UNCHANGED <<entity_metadata, entity_metadata_seq, entity_column_metadata,
                   silver, gold, key_seq, now, detected, calls>>

----------------------------------------------------------------------------
(* Validation processor *)

\* TRY_CAST(value AS data_type): NULL when the value does not convert
TryCast(value, data_type) ==
    IF value = Null THEN Null
    ELSE IF data_type = "INTEGER"
         THEN (IF value \in IntLiterals THEN value ELSE Null)
         ELSE value

SeqToSet(cols) == {cols[i] : i \in 1..Len(cols)}

process_silver_entity(entity_name) ==
    IF ~(/\ _validate_identifier(entity_name)
         /\ _validate_identifier("bronze")
         /\ _validate_identifier("silver"))
    THEN /\ result' = Raised("process_silver_entity", entity_name, "IdentifierError")
         /\ UNCHANGED <<entity_metadata, entity_metadata_seq, entity_column_metadata,
                        schemas, bronze, silver, gold, key_seq, now, detected, calls>>
    ELSE
    IF ~HasEntity(entity_name)
    THEN /\ result' = Raised("process_silver_entity", entity_name, "EntityNotFound")
         /\ UNCHANGED <<entity_metadata, entity_metadata_seq, entity_column_metadata,
                        schemas, bronze, silver, gold, key_seq, now, detected, calls>>
    ELSE
    LET column_meta == ColumnMeta(EntityMeta(entity_name).entity_id)
        column_names == ColumnNames(column_meta)
        src == bronze[entity_name]
        \* CREATE OR REPLACE TABLE silver.<entity>_silver (...)
        created == [exists |-> TRUE, kind |-> "silver", cols |-> column_names,
                    rows |-> <<>>]
        cast(i) == [c \in SeqToSet(column_names) |->
                        LET m == column_meta[CHOOSE j \in 1..Len(column_meta) :
                                                 column_meta[j].column_name = c]
                        IN TryCast(src.rows[i].vals[c], m.data_type)]
        selected == [i \in 1..Len(src.rows) |->
                        [vals |-> cast(i),
                         _load_date |-> src.rows[i]._load_date,
                         _row_hash |-> src.rows[i]._row_hash,
                         _valid_from |-> now,
                         _is_valid |-> TRUE]]
        \* the INSERT binds when the bronze table exists and has every column
        binds == src.exists /\ SeqToSet(column_names) \subseteq SeqToSet(src.cols)
        \* and it fails as a whole when a NOT NULL column would receive NULL
        not_null_ok ==
            \A i \in 1..Len(src.rows) : \A j \in 1..Len(column_meta) :
                column_meta[j].is_nullable
                    \/ selected[i].vals[column_meta[j].column_name] # Null
    IN IF Len(column_meta) = 0
       THEN /\ result' = Raised("process_silver_entity", entity_name, "NoColumns")
            /\ UNCHANGED <<entity_metadata, entity_metadata_seq,
                           entity_column_metadata, schemas, bronze, silver, gold,
                           key_seq, now, detected, calls>>
       ELSE \* CREATE SCHEMA IF NOT EXISTS silver runs before the loop that
            \* validates the column names
            /\ schemas' = schemas \cup {"silver"}
            /\ IF \E j \in 1..Len(column_meta) :
                      ~_validate_identifier(column_meta[j].column_name)
               THEN /\ silver' = silver
                    /\ result' = Raised("process_silver_entity", entity_name,
                                        "IdentifierError")
               ELSE
               IF binds /\ not_null_ok
               THEN /\ silver' = [silver EXCEPT ![entity_name] =
                                     [created EXCEPT !.rows = selected]]
                    /\ result' =
                         [Raised("process_silver_entity", entity_name, "ok") EXCEPT
                             !.total_rows = Len(selected),
                             !.valid_rows =
                                 Cardinality({i \in 1..Len(selected) :
                                                 selected[i]._is_valid}),
                             !.invalid_rows =
                                 Cardinality({i \in 1..Len(selected) :
                                                 ~selected[i]._is_valid})]
               ELSE /\ silver' = [silver EXCEPT ![entity_name] = created]
                    /\ result' = Raised("process_silver_entity", entity_name, "StorageError")
            /\ UNCHANGED <<entity_metadata, entity_metadata_seq,
                           entity_column_metadata, bronze, gold, key_seq, now,
                           detected, calls>>

----------------------------------------------------------------------------
(* Dimension merge engine *)

\* SQL comparison: NULL on either side is not TRUE
SqlEq(a, b) == a # Null /\ b # Null /\ a = b

SqlNe(a, b) == a # Null /\ b # Null /\ a # b

\* A variant that joins every version with every typed row
KeyJoinCross(dim, src, business_keys) == TRUE

\* business_key_join: dim.k = src.k AND ... over the business keys
KeyJoin(dim, src, business_keys) ==
    \A i \in 1..Len(business_keys) :
        SqlEq(dim.vals[business_keys[i]], src.vals[business_keys[i]])

\* A variant without dim._is_current = TRUE: any version whose hash differs
ChangedMatchAnyVersion(dim, src, business_keys) ==
    /\ KeyJoin(dim, src, business_keys)
    /\ SqlNe(dim._row_hash, src._row_hash)
    /\ src._is_valid

\* The predicate of the count query and of the UPDATE: a current version whose
\* hash differs from that of a valid silver row of the same business key.
ChangedMatch(dim, src, business_keys) ==
    /\ KeyJoin(dim, src, business_keys)
    /\ dim._is_current
    /\ SqlNe(dim._row_hash, src._row_hash)
    /\ src._is_valid

\* SELECT COUNT(*) FROM gold dim JOIN silver src ON ... WHERE ...
CountChanged(dim_rows, src_rows, business_keys) ==
    Cardinality({p \in dim_rows \X (1..Len(src_rows)) :
                    ChangedMatch(p[1], src_rows[p[2]], business_keys)})

\* A variant of the UPDATE that sets _valid_to alone
CloseChangedValidTo(dim_rows, src_rows, business_keys, ts) ==
    {IF \E i \in 1..Len(src_rows) : ChangedMatch(d, src_rows[i], business_keys)
     THEN [d EXCEPT !._valid_to = ts]
     ELSE d : d \in dim_rows}

\* UPDATE gold dim SET _valid_to = CURRENT_TIMESTAMP, _is_current = FALSE
\* FROM silver src WHERE ...
CloseChanged(dim_rows, src_rows, business_keys, ts) ==
    {IF \E i \in 1..Len(src_rows) : ChangedMatch(d, src_rows[i], business_keys)
     THEN [d EXCEPT !._valid_to = ts, !._is_current = FALSE]
     ELSE d : d \in dim_rows}

\* The silver rows of "Insert new versions of changed records": valid rows
\* for whose business key the dimension holds a closed version.
ChangedVersions(dim_rows, src_rows, business_keys) ==
    {i \in 1..Len(src_rows) :
        /\ src_rows[i]._is_valid
        /\ \E d \in dim_rows : /\ KeyJoin(d, src_rows[i], business_keys)
                               /\ d._valid_to # NullTime
                               /\ ~d._is_current}

\* The silver rows of "Insert completely new records": valid rows whose
\* business key is not in the dimension.
NewMembers(dim_rows, src_rows, business_keys) ==
    {i \in 1..Len(src_rows) :
        /\ src_rows[i]._is_valid
        /\ ~\E d \in dim_rows : KeyJoin(d, src_rows[i], business_keys)}

\* A variant that inserts SELECT DISTINCT: one version per distinct silver row
InsertDistinctVersions(dim_rows, src_rows, selected, all_cols, next_key) ==
    LET first == {i \in selected :
                     \A j \in selected : src_rows[j] = src_rows[i] => i <= j}
    IN dim_rows \cup
       {[key |-> next_key + Cardinality({j \in first : j < i}),
         vals |-> [c \in SeqToSet(all_cols) |-> src_rows[i].vals[c]],
         _valid_from |-> src_rows[i]._valid_from,
         _valid_to |-> NullTime,
         _is_current |-> TRUE,
         _load_date |-> src_rows[i]._load_date,
         _row_hash |-> src_rows[i]._row_hash] : i \in first}

\* A variant that draws the key once per statement instead of once per row
InsertVersionsOneKey(dim_rows, src_rows, selected, all_cols, next_key) ==
    dim_rows \cup
    {[key |-> next_key,
      vals |-> [c \in SeqToSet(all_cols) |-> src_rows[i].vals[c]],
      _valid_from |-> src_rows[i]._valid_from,
      _valid_to |-> NullTime,
      _is_current |-> TRUE,
      _load_date |-> src_rows[i]._load_date,
      _row_hash |-> src_rows[i]._row_hash] : i \in selected}

\* INSERT INTO gold SELECT nextval(seq), <all_cols>, _valid_from, NULL, TRUE,
\* _load_date, _row_hash FROM silver: the selected rows, keyed in scan order.
InsertVersions(dim_rows, src_rows, selected, all_cols, next_key) ==
    dim_rows \cup
    {[key |-> next_key + Cardinality({j \in selected : j < i}),
      vals |-> [c \in SeqToSet(all_cols) |-> src_rows[i].vals[c]],
      _valid_from |-> src_rows[i]._valid_from,
      _valid_to |-> NullTime,
      _is_current |-> TRUE,
      _load_date |-> src_rows[i]._load_date,
      _row_hash |-> src_rows[i]._row_hash] : i \in selected}

\* The business-key tuple of a row
KeyOf(row, business_keys) ==
    [i \in 1..Len(business_keys) |-> row.vals[business_keys[i]]]

\* History: one more detection for each business key of keys
Detect(counts, keys) ==
    [k \in (DOMAIN counts) \cup keys |->
        (IF k \in DOMAIN counts THEN counts[k] ELSE 0)
        + (IF k \in keys THEN 1 ELSE 0)]

\* What the statements of build_type2_dimension, run one after the other
\* with no other statement in between, leave behind when they start from
\* before: the schemas, the entity's gold table, its sequence, the detections
\* and the result or error.
type2_merge(entity_name, before) ==
    LET op == "build_type2_dimension" IN
    IF ~(/\ _validate_identifier(entity_name)
         /\ _validate_identifier("silver")
         /\ _validate_identifier("gold"))
    THEN [before EXCEPT !.result = Raised(op, entity_name, "IdentifierError")]
    ELSE
    IF ~HasEntity(entity_name)
    THEN [before EXCEPT !.result = Raised(op, entity_name, "EntityNotFound")]
    ELSE
    LET column_meta == ColumnMeta(EntityMeta(entity_name).entity_id)
        all_cols == ColumnNames(column_meta)
        business_keys == BusinessKeys(column_meta)
        src == silver[entity_name]
        dim == before.gold
    IN
    \* the loop over column_meta validates each column name
    IF \E j \in 1..Len(column_meta) : ~_validate_identifier(column_meta[j].column_name)
    THEN [before EXCEPT !.result = Raised(op, entity_name, "IdentifierError")]
    ELSE
    IF Len(business_keys) = 0
    THEN [before EXCEPT !.result = Raised(op, entity_name, "MissingBusinessKey")]
    ELSE
    \* CREATE SCHEMA IF NOT EXISTS gold
    LET s1 == [before EXCEPT !.schemas = before.schemas \cup {"gold"}] IN
    IF ~dim.exists
    THEN
      \* CREATE TABLE gold.<entity> (...); CREATE SEQUENCE IF NOT EXISTS ... START 1
      LET s2 == [s1 EXCEPT
                    !.gold = [exists |-> TRUE, kind |-> "scd2",
                              cols |-> all_cols, rows |-> {}],
                    !.key_seq = IF s1.key_seq = 0 THEN 1 ELSE s1.key_seq]
      IN
      IF ~(src.exists /\ SeqToSet(all_cols) \subseteq SeqToSet(src.cols))
      THEN [s2 EXCEPT !.result = Raised(op, entity_name, "StorageError")]
      ELSE
      LET selected == {i \in 1..Len(src.rows) : src.rows[i]._is_valid}
          rows == InsertVersions({}, src.rows, selected, all_cols, s2.key_seq)
      IN [s2 EXCEPT
             !.gold.rows = rows,
             !.key_seq = s2.key_seq + Cardinality(selected),
             !.result = [Raised(op, entity_name, "ok") EXCEPT
                            !.total_rows = Cardinality(rows),
                            !.new_rows = Cardinality(rows),
                            !.updated_rows = 0]]
    ELSE
      \* the count query and the UPDATE read the SCD2 columns of the
      \* dimension and the business keys of both tables
      IF ~(/\ dim.kind = "scd2"
           /\ SeqToSet(business_keys) \subseteq SeqToSet(dim.cols)
           /\ src.exists
           /\ SeqToSet(business_keys) \subseteq SeqToSet(src.cols))
      THEN [s1 EXCEPT !.result = Raised(op, entity_name, "StorageError")]
      ELSE
      LET updated_rows == CountChanged(dim.rows, src.rows, business_keys)
          closed == CloseChanged(dim.rows, src.rows, business_keys, now)
          s3 == [s1 EXCEPT
                    !.gold.rows = closed,
                    !.detected =
                        Detect(s1.detected,
                               {KeyOf(d, business_keys) : d \in
                                   {x \in dim.rows : \E i \in 1..Len(src.rows) :
                                       ChangedMatch(x, src.rows[i], business_keys)}})]
      IN
      \* the INSERTs supply one value per catalog column and draw from the sequence
      IF ~(/\ SeqToSet(all_cols) \subseteq SeqToSet(src.cols)
           /\ all_cols = dim.cols
           /\ s1.key_seq # 0)
      THEN [s3 EXCEPT !.result = Raised(op, entity_name, "StorageError")]
      ELSE
      LET changed == ChangedVersions(closed, src.rows, business_keys)
          rows3 == InsertVersions(closed, src.rows, changed, all_cols, s1.key_seq)
          seq3 == s1.key_seq + Cardinality(changed)
          fresh == NewMembers(rows3, src.rows, business_keys)
          rows4 == InsertVersions(rows3, src.rows, fresh, all_cols, seq3)
          \* "Count new records" runs after the insert
          new_rows == Cardinality(NewMembers(rows4, src.rows, business_keys))
      IN [s3 EXCEPT
             !.gold.rows = rows4,
             !.key_seq = seq3 + Cardinality(fresh),
             !.result = [Raised(op, entity_name, "ok") EXCEPT
                            !.total_rows = Cardinality(rows4),
                            !.new_rows = new_rows,
                            !.updated_rows = updated_rows]]

\* gold[gold_table(e)] is the table {gold_schema}.{entity_name}
gold_table(entity_name) == entity_name

\* A variant with one sequence for the surrogate keys of all dimensions
key_seq_shared(entity_name) == "customer"

\* key_seq[key_seq_name(e)] is the sequence {entity_name}_key_seq
key_seq_name(entity_name) == entity_name

\* The database as one call sees it: what the statements of a merge of
\* entity_name read and write
Storage(entity_name) ==
    [schemas |-> schemas, gold |-> gold[gold_table(entity_name)],
     key_seq |-> key_seq[key_seq_name(entity_name)],
     detected |-> detected[entity_name],
     result |-> NoResult]

\* What build_type2_dimension leaves behind when it runs alone
build_type2_dimension(entity_name) ==
    type2_merge(entity_name, Storage(entity_name))

----------------------------------------------------------------------------
(* Materialization dispatcher *)

\* A variant that selects DISTINCT rows
SnapshotDistinctRows(src_rows, all_cols) ==
    {[key |-> i,
      vals |-> [c \in SeqToSet(all_cols) |-> src_rows[i].vals[c]],
      _load_date |-> src_rows[i]._load_date,
      _valid_from |-> src_rows[i]._valid_from] :
        i \in {j \in 1..Len(src_rows) :
                  /\ src_rows[j]._is_valid
                  /\ \A k \in 1..(j - 1) : src_rows[k] # src_rows[j]}}

\* CREATE OR REPLACE TABLE gold.<entity> AS SELECT <cols>, _load_date,
\* _valid_from FROM silver WHERE _is_valid = TRUE
SnapshotRows(src_rows, all_cols) ==
    {[key |-> i,
      vals |-> [c \in SeqToSet(all_cols) |-> src_rows[i].vals[c]],
      _load_date |-> src_rows[i]._load_date,
      _valid_from |-> src_rows[i]._valid_from] :
        i \in {j \in 1..Len(src_rows) : src_rows[j]._is_valid}}

build_gold_entity(entity_name) ==
    IF ~(/\ _validate_identifier(entity_name)
         /\ _validate_identifier("silver")
         /\ _validate_identifier("gold"))
    THEN /\ result' = Raised("build_gold_entity", entity_name, "IdentifierError")
         /\ UNCHANGED <<entity_metadata, entity_metadata_seq, entity_column_metadata,
                        schemas, bronze, silver, gold, key_seq, now, detected, calls>>
    ELSE
    IF ~HasEntity(entity_name)
    THEN /\ result' = Raised("build_gold_entity", entity_name, "EntityNotFound")
         /\ UNCHANGED <<entity_metadata, entity_metadata_seq, entity_column_metadata,
                        schemas, bronze, silver, gold, key_seq, now, detected, calls>>
    ELSE
    IF EntityMeta(entity_name).entity_type = "type2_dimension"
    THEN LET after == build_type2_dimension(entity_name) IN
         /\ schemas' = after.schemas
         /\ gold' = [gold EXCEPT ![entity_name] = after.gold]
         /\ key_seq' = [key_seq EXCEPT ![entity_name] = after.key_seq]
         /\ detected' = [detected EXCEPT ![entity_name] = after.detected]
         /\ result' = after.result
         /\ UNCHANGED <<entity_metadata, entity_metadata_seq, entity_column_metadata,
                        bronze, silver, now, calls>>
    ELSE LET all_cols == ColumnNames(ColumnMeta(EntityMeta(entity_name).entity_id))
             src == silver[entity_name]
         IN
         \* CREATE SCHEMA IF NOT EXISTS runs before the loop that validates
         \* the column names
         /\ schemas' = schemas \cup {"gold"}
         /\ IF \E j \in 1..Len(all_cols) : ~_validate_identifier(all_cols[j])
            THEN /\ gold' = gold
                 /\ result' = Raised("build_gold_entity", entity_name,
                                     "IdentifierError")
            ELSE
            IF /\ Len(all_cols) > 0
               /\ src.exists
               /\ SeqToSet(all_cols) \subseteq SeqToSet(src.cols)
            THEN LET rows == SnapshotRows(src.rows, all_cols) IN
                 /\ gold' = [gold EXCEPT ![entity_name] =
                                [exists |-> TRUE, kind |-> "snapshot",
                                 cols |-> all_cols, rows |-> rows]]
                 /\ result' = [Raised("build_gold_entity", entity_name, "ok") EXCEPT
                                  !.total_rows = Cardinality(rows)]
            ELSE /\ gold' = gold
                 /\ result' = Raised("build_gold_entity", entity_name, "StorageError")
         /\ UNCHANGED <<entity_metadata, entity_metadata_seq, entity_column_metadata,
                        bronze, silver, key_seq, now, detected, calls>>

----------------------------------------------------------------------------
(* build_type2_dimension, statement by statement *)

\* The connections that run build_type2_dimension concurrently
Connections == {1, 2}

\* No call is running on the connection.  The fields all_cols to new_rows
\* are the local variables of the call.  Two fields are history: serial is
\* what the calls of the entity that have started and not yet ended leave
\* behind when the statements of each run with no other statement in
\* between, and interrupted tells that the last call on the connection was
\* ended by a storage failure.
NoCall ==
    [entity |-> "none", pc |-> "idle", all_cols |-> <<>>, business_keys |-> <<>>,
     table_exists |-> FALSE, updated_rows |-> 0, new_rows |-> 0,
     serial |-> NoResult, interrupted |-> FALSE]

\* The other calls that are merging the entity
Concurrent(c, entity_name) ==
    {d \in Connections \ {c} :
        calls[d].pc # "idle" /\ calls[d].entity = entity_name}

\* The call on connection c raises: the statements it has executed stay
Raise(c, status) ==
    /\ calls' = [calls EXCEPT ![c] = NoCall]
    /\ result' = Raised("build_type2_dimension", calls[c].entity, status)

\* The call on connection c goes on to its next statement
Goto(c, pc) == calls' = [calls EXCEPT ![c].pc = pc]

\* Lines 364-414: the identifiers are validated, the entity and its columns
\* are read from the catalog, and CREATE SCHEMA IF NOT EXISTS is executed.
Begin(c, entity_name) ==
    /\ calls[c].pc = "idle"
    /\ LET alone == build_type2_dimension(entity_name) IN
       IF alone.result.status \in {"IdentifierError", "EntityNotFound",
                                   "MissingBusinessKey"}
       THEN /\ result' = alone.result
            /\ UNCHANGED <<schemas, calls>>
       ELSE LET column_meta == ColumnMeta(EntityMeta(entity_name).entity_id)
                others == Concurrent(c, entity_name)
                serial ==
                    IF calls[c].interrupted /\ calls[c].entity = entity_name
                    THEN calls[c].serial
                    ELSE IF others = {}
                    THEN alone
                    ELSE type2_merge(entity_name,
                                     calls[CHOOSE d \in others : TRUE].serial)
            IN
            /\ schemas' = schemas \cup {"gold"}
            /\ calls' =
                   [d \in Connections |->
                       IF d = c
                       THEN [NoCall EXCEPT
                                !.entity = entity_name,
                                !.pc = "table_exists",
                                !.all_cols = ColumnNames(column_meta),
                                !.business_keys = BusinessKeys(column_meta),
                                !.serial = serial,
                                !.interrupted = calls[c].interrupted]
                       ELSE IF d \in others
                       THEN [calls[d] EXCEPT !.serial = serial]
                       ELSE calls[d]]
            /\ UNCHANGED result
    /\ UNCHANGED <<entity_metadata, entity_metadata_seq, entity_column_metadata,
                   bronze, silver, gold, key_seq, now, detected>>

\* Lines 420-423: SELECT COUNT(*) FROM information_schema.tables ... > 0
CheckTableExists(c) ==
    /\ calls[c].pc = "table_exists"
    /\ LET table_exists == gold[gold_table(calls[c].entity)].exists IN
       calls' = [calls EXCEPT
                    ![c].table_exists = table_exists,
                    ![c].pc = IF table_exists THEN "count_changed"
                              ELSE "create_table"]
    /\ UNCHANGED <<entity_metadata, entity_metadata_seq, entity_column_metadata,
                   schemas, bronze, silver, gold, key_seq, now, result, detected>>

\* Lines 429-440: CREATE TABLE gold.<entity> (...)
CreateTable(c) ==
    /\ calls[c].pc = "create_table"
    /\ LET t == gold_table(calls[c].entity) IN
       IF gold[t].exists
       THEN Raise(c, "StorageError") /\ UNCHANGED gold
       ELSE /\ gold' = [gold EXCEPT ![t] =
                           [exists |-> TRUE, kind |-> "scd2",
                            cols |-> calls[c].all_cols, rows |-> {}]]
            /\ Goto(c, "create_sequence")
            /\ UNCHANGED result
    /\ UNCHANGED <<entity_metadata, entity_metadata_seq, entity_column_metadata,
                   schemas, bronze, silver, key_seq, now, detected>>

\* Line 443: CREATE SEQUENCE IF NOT EXISTS <entity>_key_seq START 1
CreateSequence(c) ==
    /\ calls[c].pc = "create_sequence"
    /\ LET q == key_seq_name(calls[c].entity) IN
       key_seq' = [key_seq EXCEPT ![q] = IF key_seq[q] = 0 THEN 1 ELSE key_seq[q]]
    /\ Goto(c, "initial_insert")
    /\ UNCHANGED <<entity_metadata, entity_metadata_seq, entity_column_metadata,
                   schemas, bronze, silver, gold, now, result, detected>>

\* The INSERTs supply one value per catalog column, read them from the typed
\* tier and draw from the sequence
Insertable(c) ==
    LET e == calls[c].entity
        dim == gold[gold_table(e)]
        src == silver[e]
    IN /\ dim.exists
       /\ dim.kind = "scd2"
       /\ dim.cols = calls[c].all_cols
       /\ src.exists
       /\ SeqToSet(calls[c].all_cols) \subseteq SeqToSet(src.cols)
       /\ key_seq[key_seq_name(e)] # 0

\* INSERT INTO gold.<entity> the rows selected of the typed tier
Insert(c, selected, pc) ==
    LET e == calls[c].entity
        t == gold_table(e)
        q == key_seq_name(e)
    IN
    IF ~Insertable(c)
    THEN Raise(c, "StorageError") /\ UNCHANGED <<gold, key_seq>>
    ELSE /\ gold' = [gold EXCEPT ![t].rows =
                        InsertVersions(gold[t].rows, silver[e].rows, selected,
                                       calls[c].all_cols, key_seq[q])]
         /\ key_seq' = [key_seq EXCEPT ![q] = key_seq[q] + Cardinality(selected)]
         /\ Goto(c, pc)
         /\ UNCHANGED result

\* Lines 449-462: INSERT ... FROM silver WHERE _is_valid = TRUE
InitialInsert(c) ==
    /\ calls[c].pc = "initial_insert"
    /\ LET src == silver[calls[c].entity] IN
       Insert(c, IF src.exists
                 THEN {i \in 1..Len(src.rows) : src.rows[i]._is_valid}
                 ELSE {},
              "count_rows")
    /\ UNCHANGED <<entity_metadata, entity_metadata_seq, entity_column_metadata,
                   schemas, bronze, silver, now, detected>>

\* Lines 464-475: SELECT COUNT(*) FROM gold.<entity>, and the return
CountRows(c) ==
    /\ calls[c].pc = "count_rows"
    /\ LET e == calls[c].entity
           rows_inserted == Cardinality(gold[gold_table(e)].rows)
       IN result' = [Raised("build_type2_dimension", e, "ok") EXCEPT
                        !.total_rows = rows_inserted,
                        !.new_rows = rows_inserted,
                        !.updated_rows = 0]
    /\ calls' = [calls EXCEPT ![c] = NoCall]
    /\ UNCHANGED <<entity_metadata, entity_metadata_seq, entity_column_metadata,
                   schemas, bronze, silver, gold, key_seq, now, detected>>

\* The count query and the UPDATE read the SCD2 columns of the dimension and
\* the business keys of both tables
Joinable(c) ==
    LET e == calls[c].entity
        dim == gold[gold_table(e)]
        src == silver[e]
    IN /\ dim.exists
       /\ dim.kind = "scd2"
       /\ SeqToSet(calls[c].business_keys) \subseteq SeqToSet(dim.cols)
       /\ src.exists
       /\ SeqToSet(calls[c].business_keys) \subseteq SeqToSet(src.cols)

\* Lines 482-489: SELECT COUNT(*) FROM gold dim JOIN silver src ...
CountChangedRows(c) ==
    /\ calls[c].pc = "count_changed"
    /\ LET e == calls[c].entity IN
       IF ~Joinable(c)
       THEN Raise(c, "StorageError")
       ELSE /\ calls' = [calls EXCEPT
                            ![c].updated_rows =
                                CountChanged(gold[gold_table(e)].rows,
                                             silver[e].rows,
                                             calls[c].business_keys),
                            ![c].pc = "close_changed"]
            /\ UNCHANGED result
    /\ UNCHANGED <<entity_metadata, entity_metadata_seq, entity_column_metadata,
                   schemas, bronze, silver, gold, key_seq, now, detected>>

\* Lines 492-501: UPDATE gold dim SET _valid_to = CURRENT_TIMESTAMP, ...
CloseChangedRows(c) ==
    /\ calls[c].pc = "close_changed"
    /\ LET e == calls[c].entity
           t == gold_table(e)
       IN
       IF ~Joinable(c)
       THEN Raise(c, "StorageError") /\ UNCHANGED <<gold, detected>>
       ELSE /\ gold' = [gold EXCEPT ![t].rows =
                           CloseChanged(gold[t].rows, silver[e].rows,
                                        calls[c].business_keys, now)]
            /\ detected' = [detected EXCEPT ![e] =
                   Detect(detected[e],
                          {KeyOf(d, calls[c].business_keys) : d \in
                              {x \in gold[t].rows :
                                  \E i \in 1..Len(silver[e].rows) :
                                      ChangedMatch(x, silver[e].rows[i],
                                                   calls[c].business_keys)}})]
            /\ Goto(c, "insert_changed")
            /\ UNCHANGED result
    /\ UNCHANGED <<entity_metadata, entity_metadata_seq, entity_column_metadata,
                   schemas, bronze, silver, key_seq, now>>

\* Lines 504-522: "Insert new versions of changed records"
InsertChanged(c) ==
    /\ calls[c].pc = "insert_changed"
    /\ LET e == calls[c].entity IN
       Insert(c, IF Joinable(c)
                 THEN ChangedVersions(gold[gold_table(e)].rows, silver[e].rows,
                                      calls[c].business_keys)
                 ELSE {},
              "insert_new")
    /\ UNCHANGED <<entity_metadata, entity_metadata_seq, entity_column_metadata,
                   schemas, bronze, silver, now, detected>>

\* Lines 527-543: "Insert completely new records"
InsertNew(c) ==
    /\ calls[c].pc = "insert_new"
    /\ LET e == calls[c].entity IN
       Insert(c, IF Joinable(c)
                 THEN NewMembers(gold[gold_table(e)].rows, silver[e].rows,
                                 calls[c].business_keys)
                 ELSE {},
              "count_new")
    /\ UNCHANGED <<entity_metadata, entity_metadata_seq, entity_column_metadata,
                   schemas, bronze, silver, now, detected>>

\* Lines 546-554: "Count new records", after the insert
CountNew(c) ==
    /\ calls[c].pc = "count_new"
    /\ LET e == calls[c].entity IN
       IF ~Joinable(c)
       THEN Raise(c, "StorageError")
       ELSE /\ calls' = [calls EXCEPT
                            ![c].new_rows =
                                Cardinality(NewMembers(gold[gold_table(e)].rows,
                                                       silver[e].rows,
                                                       calls[c].business_keys)),
                            ![c].pc = "count_total"]
            /\ UNCHANGED result
    /\ UNCHANGED <<entity_metadata, entity_metadata_seq, entity_column_metadata,
                   schemas, bronze, silver, gold, key_seq, now, detected>>

\* Lines 556-568: SELECT COUNT(*) FROM gold.<entity>, and the return
CountTotal(c) ==
    /\ calls[c].pc = "count_total"
    /\ LET e == calls[c].entity IN
       result' = [Raised("build_type2_dimension", e, "ok") EXCEPT
                     !.total_rows = Cardinality(gold[gold_table(e)].rows),
                     !.new_rows = calls[c].new_rows,
                     !.updated_rows = calls[c].updated_rows]
    /\ calls' = [calls EXCEPT ![c] = NoCall]
    /\ UNCHANGED <<entity_metadata, entity_metadata_seq, entity_column_metadata,
                   schemas, bronze, silver, gold, key_seq, now, detected>>

\* The next statement of the call on connection c
Statement(c) ==
    \/ CheckTableExists(c)
    \/ CreateTable(c)
    \/ CreateSequence(c)
    \/ InitialInsert(c)
    \/ CountRows(c)
    \/ CountChangedRows(c)
    \/ CloseChangedRows(c)
    \/ InsertChanged(c)
    \/ InsertNew(c)
    \/ CountNew(c)
    \/ CountTotal(c)

\* The positions a call is at after table creation, the initial insert, the
\* close, the insert of changed versions and the insert of new members
AfterStatement ==
    {"create_sequence", "count_rows", "insert_changed", "insert_new", "count_new"}

\* A storage failure: the statement the call is about to execute raises and
\* changes nothing; the statements executed before it stay (autocommit).
StorageFailure(c) ==
    /\ calls[c].pc \in AfterStatement
    /\ ~calls[c].interrupted
    /\ calls' = [calls EXCEPT ![c] =
                    [NoCall EXCEPT !.entity = calls[c].entity,
                                   !.serial = calls[c].serial,
                                   !.interrupted = TRUE]]
    /\ result' = Raised("build_type2_dimension", calls[c].entity, "StorageError")
    /\ UNCHANGED <<entity_metadata, entity_metadata_seq, entity_column_metadata,
                   schemas, bronze, silver, gold, key_seq, now, detected>>

\* No call is running
Quiet == \A c \in Connections : calls[c].pc = "idle"

----------------------------------------------------------------------------
(* The clock *)

Tick ==
    /\ now < MaxClock
    /\ now' = now + 1
    /\ UNCHANGED <<entity_metadata, entity_metadata_seq, entity_column_metadata,
                   schemas, bronze, silver, gold, key_seq, result, detected, calls>>

----------------------------------------------------------------------------
(* The pipeline of the customer dimension *)

\* The declared columns of the customer dimension: id is the business key
IdColumn ==
    [column_name |-> "id", data_type |-> "INTEGER", is_nullable |-> FALSE,
     is_business_key |-> TRUE, track_history |-> FALSE]

NameColumn ==
    [column_name |-> "name", data_type |-> "VARCHAR", is_nullable |-> FALSE,
     is_business_key |-> FALSE, track_history |-> TRUE]

\* The catalog after update_entity_metadata(entity_name, entity_type =
\* "type2_dimension") and add_entity_column for each column of decls
Registered(entity_name, decls) ==
    /\ entity_metadata = <<[entity_id |-> 1, entity_name |-> entity_name,
                            target_schema |-> "gold",
                            entity_type |-> "type2_dimension",
                            description |-> ""]>>
    /\ entity_metadata_seq = 2
    /\ entity_column_metadata =
           [i \in 1..Len(decls) |->
               [entity_id |-> 1,
                column_name |-> decls[i].column_name,
                data_type |-> decls[i].data_type,
                is_nullable |-> decls[i].is_nullable,
                is_business_key |-> decls[i].is_business_key,
                track_history |-> decls[i].track_history]]

\* A fresh database: no schema, no table, no surrogate-key sequence
EmptyStorage ==
    /\ schemas = {}
    /\ bronze = [e \in EntityNames |-> NoTable]
    /\ silver = [e \in EntityNames |-> NoTable]
    /\ gold = [e \in EntityNames |-> NoGold]
    /\ key_seq = [e \in EntityNames |-> 0]
    /\ now = 0
    /\ result = NoResult
    /\ detected = [e \in EntityNames |-> <<>>]
    /\ calls = [c \in Connections |-> NoCall]

\* A fresh database in which the customer dimension has been registered,
\* with its business key or, so far, without it
Init ==
    /\ \E decls \in {<<IdColumn, NameColumn>>, <<NameColumn>>} :
           Registered("customer", decls)
    /\ EmptyStorage

\* The submitted row-sets: at most MaxRows of the rows of source_rows, in
\* their order, repetitions included
Picks(n, m) ==
    {p \in [1..n -> 1..m] : \A i \in 1..n : \A j \in i..n : p[i] <= p[j]}

SourceData(source_cols, source_rows) ==
    UNION {{[cols |-> source_cols, rows |-> [i \in 1..n |-> source_rows[p[i]]]] :
               p \in Picks(n, Len(source_rows))} : n \in 0..MaxRows}

CustomerRows ==
    <<[id |-> "1", name |-> "a"], [id |-> "1", name |-> "b"],
      [id |-> "2", name |-> "a"]>>

CustomerData == SourceData(<<"id", "name">>, CustomerRows)

\* build_gold_entity while the next surrogate key is within the bound
Materialize(entity_name) ==
    /\ key_seq[entity_name] <= MaxKey
    /\ build_gold_entity(entity_name)

\* In Spec the clock stands still: no statement compares two timestamps, so
\* which rows a merge closes and inserts does not depend on the clock.
Next ==
    \/ \E d \in CustomerData : load_bronze_entity("customer", d)
    \/ process_silver_entity("customer")
    \/ Materialize("customer")

Spec == Init /\ [][Next]_vars

\* The same pipeline with the clock advancing between calls
NextClock == Next \/ Tick

SpecClock == Init /\ [][NextClock]_vars

----------------------------------------------------------------------------
(* The pipeline of the product dimension, with a composite business key *)

CodeColumn ==
    [column_name |-> "code", data_type |-> "VARCHAR", is_nullable |-> FALSE,
     is_business_key |-> TRUE, track_history |-> FALSE]

VendorColumn ==
    [column_name |-> "vendor", data_type |-> "INTEGER", is_nullable |-> FALSE,
     is_business_key |-> TRUE, track_history |-> FALSE]

InitComposite ==
    /\ Registered("product", <<CodeColumn, VendorColumn, NameColumn>>)
    /\ EmptyStorage

ProductRows ==
    <<[code |-> "P1", vendor |-> "1", name |-> "a"],
      [code |-> "P1", vendor |-> "1", name |-> "b"],
      [code |-> "P1", vendor |-> "2", name |-> "a"],
      [code |-> "P1", vendor |-> "2", name |-> "b"]>>

ProductData == SourceData(<<"code", "vendor", "name">>, ProductRows)

MaterializeProduct(entity_name) ==
    /\ key_seq[entity_name] <= MaxProductKey
    /\ build_gold_entity(entity_name)

NextComposite ==
    \/ \E d \in ProductData : load_bronze_entity("product", d)
    \/ process_silver_entity("product")
    \/ MaterializeProduct("product")

SpecComposite == InitComposite /\ [][NextComposite]_vars

----------------------------------------------------------------------------
(* Validation of landing rows that do not fit the declared columns *)

\* A nullable typed column
AgeColumn ==
    [column_name |-> "age", data_type |-> "INTEGER", is_nullable |-> TRUE,
     is_business_key |-> FALSE, track_history |-> TRUE]

InitValidation ==
    /\ Registered("customer", <<IdColumn, AgeColumn>>)
    /\ EmptyStorage

\* Landing rows: a fitting one, one with a missing optional value, one whose
\* optional value is no integer, one whose id is no integer, one without id
ValidationRows ==
    <<[id |-> "1", age |-> "2"], [id |-> "2", age |-> Null],
      [id |-> "2", age |-> "x"], [id |-> "x", age |-> "1"],
      [id |-> Null, age |-> "1"]>>

ValidationData == SourceData(<<"id", "age">>, ValidationRows)

NextValidation ==
    \/ \E d \in ValidationData : load_bronze_entity("customer", d)
    \/ process_silver_entity("customer")

SpecValidation == InitValidation /\ [][NextValidation]_vars

----------------------------------------------------------------------------
(* The catalog operations on a fresh database *)

\* ensure_ctl_tables: both catalog tables empty, both sequences at START 1
EmptyCatalog ==
    /\ entity_metadata = <<>>
    /\ entity_metadata_seq = 1
    /\ entity_column_metadata = <<>>

InitCatalog == EmptyCatalog /\ EmptyStorage

EntityTypes == {"fact", "type2_dimension"}

\* description = None (the default) or a text
Descriptions == {Null, "customers"}

\* Column declarations: id with and without the business-key flag, and name
Declarations ==
    {IdColumn, [IdColumn EXCEPT !.is_business_key = FALSE], NameColumn}

Register ==
    \E n \in EntityNames, k \in EntityTypes, d \in Descriptions :
        update_entity_metadata(n, "gold", k, d)

Declare ==
    \E n \in EntityNames, c \in Declarations :
        add_entity_column(n, c.column_name, c.data_type, c.is_nullable,
                          c.is_business_key, c.track_history)

NextCatalog == Register \/ Declare

SpecCatalog == InitCatalog /\ [][NextCatalog]_vars

----------------------------------------------------------------------------
(* The customer pipeline with a catalog that changes under it *)

OwnershipData == SourceData(<<"id", "name">>, SubSeq(CustomerRows, 1, 2))

\* update_entity_metadata(con, "customer", entity_type = k)
Retype == \E k \in EntityTypes : update_entity_metadata("customer", "gold", k, Null)

\* add_entity_column(con, "customer", "age", "INTEGER", track_history = True)
DeclareAge ==
    add_entity_column("customer", AgeColumn.column_name, AgeColumn.data_type,
                      AgeColumn.is_nullable, AgeColumn.is_business_key,
                      AgeColumn.track_history)

NextOwnership ==
    \/ Retype
    \/ DeclareAge
    \/ \E d \in OwnershipData : load_bronze_entity("customer", d)
    \/ process_silver_entity("customer")
    \/ Materialize("customer")

InitOwnership ==
    /\ Registered("customer", <<IdColumn, NameColumn>>)
    /\ EmptyStorage

SpecOwnership == InitOwnership /\ [][NextOwnership]_vars

----------------------------------------------------------------------------
(* Calls and catalogs with names that are not identifiers *)

\* A catalog column whose name holds a space: add_entity_column stores any name
FirstNameColumn == [NameColumn EXCEPT !.column_name = "first name"]

InitIdentifiers ==
    /\ \E decls \in {<<IdColumn, NameColumn>>, <<IdColumn, FirstNameColumn>>} :
           Registered("customer", decls)
    /\ EmptyStorage

\* The entity names callers pass: an identifier, names with a space or a
\* leading digit, a name that ends in a newline, a name of 64 characters
CallerNames == {"customer", "bad name", "2nd", "customer\n", LongName}

IdentifierData == SourceData(<<"id", "name">>, SubSeq(CustomerRows, 1, 1))

MaterializeNamed(entity_name) ==
    /\ entity_name \in EntityNames => key_seq[entity_name] <= MaxKey
    /\ build_gold_entity(entity_name)

NextIdentifiers ==
    \/ Retype
    \/ \E n \in CallerNames, d \in IdentifierData : load_bronze_entity(n, d)
    \/ \E n \in CallerNames : process_silver_entity(n)
    \/ \E n \in CallerNames : MaterializeNamed(n)

SpecIdentifiers == InitIdentifiers /\ [][NextIdentifiers]_vars

----------------------------------------------------------------------------
(* A merge that a storage failure interrupts, and its retry *)

\* No call is running and none waits for its retry
Settled == \A c \in Connections : calls[c].pc = "idle" /\ ~calls[c].interrupted

InitRetry ==
    /\ Registered("customer", <<IdColumn, NameColumn>>)
    /\ EmptyStorage

\* The typed tier changes only between merges: the call that follows a
\* storage failure finds the typed tier of the interrupted call.
NextRetry ==
    \/ \E d \in CustomerData : Settled /\ load_bronze_entity("customer", d)
    \/ Settled /\ process_silver_entity("customer")
    \/ key_seq["customer"] <= MaxKey /\ Begin(1, "customer")
    \/ Statement(1)
    \/ StorageFailure(1)

SpecRetry == InitRetry /\ [][NextRetry]_vars

----------------------------------------------------------------------------
(* Two connections that merge the customer dimension at the same time *)

InitInterleaved ==
    /\ Registered("customer", <<IdColumn, NameColumn>>)
    /\ EmptyStorage

\* The row-sets that hold each business key once
DistinctKeyData ==
    {d \in CustomerData :
        \A i, j \in 1..Len(d.rows) : d.rows[i].id = d.rows[j].id => i = j}

\* The typed tier changes only while no merge is running
NextInterleaved ==
    \/ \E d \in DistinctKeyData : Quiet /\ load_bronze_entity("customer", d)
    \/ Quiet /\ process_silver_entity("customer")
    \/ \E c \in Connections : key_seq["customer"] <= MaxKey /\ Begin(c, "customer")
    \/ \E c \in Connections : Statement(c)

SpecInterleaved == InitInterleaved /\ [][NextInterleaved]_vars

----------------------------------------------------------------------------
(* Two connections that merge two dimensions at the same time *)

\* The catalog after update_entity_metadata and add_entity_column for the
\* customer dimension and then for the product dimension
InitIndependent ==
    /\ entity_metadata =
           <<[entity_id |-> 1, entity_name |-> "customer",
              target_schema |-> "gold", entity_type |-> "type2_dimension",
              description |-> ""],
             [entity_id |-> 2, entity_name |-> "product",
              target_schema |-> "gold", entity_type |-> "type2_dimension",
              description |-> ""]>>
    /\ entity_metadata_seq = 3
    /\ entity_column_metadata =
           LET decls == <<[entity_id |-> 1, decl |-> IdColumn],
                          [entity_id |-> 1, decl |-> NameColumn],
                          [entity_id |-> 2, decl |-> CodeColumn],
                          [entity_id |-> 2, decl |-> NameColumn]>>
           IN [i \in 1..Len(decls) |->
                  [entity_id |-> decls[i].entity_id,
                   column_name |-> decls[i].decl.column_name,
                   data_type |-> decls[i].decl.data_type,
                   is_nullable |-> decls[i].decl.is_nullable,
                   is_business_key |-> decls[i].decl.is_business_key,
                   track_history |-> decls[i].decl.track_history]]
    /\ EmptyStorage

\* One customer, whose name changes from load to load
OneCustomerData ==
    {[cols |-> <<"id", "name">>, rows |-> <<CustomerRows[i]>>] : i \in 1..2}

\* One product
OneProductData ==
    {[cols |-> <<"code", "name">>, rows |-> <<[code |-> "P1", name |-> "a"]>>]}

\* Connection 1 merges the customer dimension and connection 2 the product
\* dimension; the typed tiers change only while no merge is running.
NextIndependent ==
    \/ \E d \in OneCustomerData : Quiet /\ load_bronze_entity("customer", d)
    \/ \E d \in OneProductData : Quiet /\ load_bronze_entity("product", d)
    \/ \E e \in EntityNames : Quiet /\ process_silver_entity(e)
    \/ key_seq[key_seq_name("customer")] <= MaxKey /\ Begin(1, "customer")
    \/ key_seq[key_seq_name("product")] <= MaxProductKey /\ Begin(2, "product")
    \/ \E c \in Connections : Statement(c)

SpecIndependent == InitIndependent /\ [][NextIndependent]_vars

----------------------------------------------------------------------------
(* Processing while the catalog is being filled *)

InitRegistration == EmptyCatalog /\ EmptyStorage

\* update_entity_metadata(con, n, entity_type = "type2_dimension")
RegisterDimension ==
    \E n \in EntityNames : update_entity_metadata(n, "gold", "type2_dimension", Null)

\* add_entity_column(con, n, "id", "INTEGER", is_business_key = True)
DeclareId ==
    \E n \in EntityNames :
        add_entity_column(n, IdColumn.column_name, IdColumn.data_type,
                          IdColumn.is_nullable, IdColumn.is_business_key,
                          IdColumn.track_history)

RegistrationData == SourceData(<<"id">>, <<[id |-> "1"]>>)

NextRegistration ==
    \/ RegisterDimension
    \/ DeclareId
    \/ \E n \in EntityNames, d \in RegistrationData : load_bronze_entity(n, d)
    \/ \E n \in EntityNames : process_silver_entity(n)

SpecRegistration == InitRegistration /\ [][NextRegistration]_vars

----------------------------------------------------------------------------
(* Row-sets submitted with their columns in either order *)

InitColumnOrder ==
    /\ Registered("customer", <<IdColumn, NameColumn>>)
    /\ EmptyStorage

\* Customer rows as a DataFrame with columns (id, name) or (name, id)
ColumnOrderData ==
    SourceData(<<"id", "name">>, SubSeq(CustomerRows, 1, 2))
        \cup SourceData(<<"name", "id">>, SubSeq(CustomerRows, 1, 2))

NextColumnOrder ==
    \/ \E d \in ColumnOrderData : load_bronze_entity("customer", d)
    \/ process_silver_entity("customer")
    \/ Materialize("customer")

SpecColumnOrder == InitColumnOrder /\ [][NextColumnOrder]_vars

----------------------------------------------------------------------------
(* One sequence of calls under two catalogs that differ in track_history *)

\* Both entities are declared with the columns id and age; the declarations
\* of the second have any track_history flags.
InitTracking ==
    /\ entity_metadata =
           <<[entity_id |-> 1, entity_name |-> "customer",
              target_schema |-> "gold", entity_type |-> "type2_dimension",
              description |-> ""],
             [entity_id |-> 2, entity_name |-> "product",
              target_schema |-> "gold", entity_type |-> "type2_dimension",
              description |-> ""]>>
    /\ entity_metadata_seq = 3
    /\ \E id_tracked, age_tracked \in BOOLEAN :
           entity_column_metadata =
               LET decls == <<[entity_id |-> 1, decl |-> IdColumn],
                              [entity_id |-> 1, decl |-> AgeColumn],
                              [entity_id |-> 2,
                               decl |-> [IdColumn EXCEPT
                                            !.track_history = id_tracked]],
                              [entity_id |-> 2,
                               decl |-> [AgeColumn EXCEPT
                                            !.track_history = age_tracked]]>>
               IN [i \in 1..Len(decls) |->
                      [entity_id |-> decls[i].entity_id,
                       column_name |-> decls[i].decl.column_name,
                       data_type |-> decls[i].decl.data_type,
                       is_nullable |-> decls[i].decl.is_nullable,
                       is_business_key |-> decls[i].decl.is_business_key,
                       track_history |-> decls[i].decl.track_history]]
    /\ EmptyStorage

\* One customer, with an age, with another age and without age
TrackingRows ==
    <<[id |-> "1", age |-> "1"], [id |-> "1", age |-> "2"],
      [id |-> "1", age |-> Null]>>

\* The snapshots of the customer: no row or one
TrackingData ==
    {d \in SourceData(<<"id", "age">>, TrackingRows) : Len(d.rows) <= 1}

\* The last call was made for the first entity and has not yet been repeated
\* for the second
Ahead == result.entity = "customer"

\* Every call is made for the first entity and then, with the same
\* arguments, for the second.
NextTracking ==
    \/ \E d \in TrackingData : ~Ahead /\ load_bronze_entity("customer", d)
    \/ ~Ahead /\ process_silver_entity("customer")
    \/ ~Ahead /\ Materialize("customer")
    \/ /\ Ahead
       /\ result.op = "load_bronze_entity"
       /\ load_bronze_entity("product",
                             [cols |-> bronze["customer"].cols,
                              rows |-> [i \in 1..Len(bronze["customer"].rows) |->
                                           bronze["customer"].rows[i].vals]])
    \/ /\ Ahead
       /\ result.op = "process_silver_entity"
       /\ process_silver_entity("product")
    \/ /\ Ahead
       /\ result.op \in {"build_gold_entity", "build_type2_dimension"}
       /\ build_gold_entity("product")

SpecTracking == InitTracking /\ [][NextTracking]_vars

----------------------------------------------------------------------------
(* Vocabulary of the properties *)

\* The catalog rows of the entity's columns
ColumnsOf(e) ==
    {c \in Range(entity_column_metadata) :
        \E m \in Range(entity_metadata) :
            m.entity_name = e /\ m.entity_id = c.entity_id}

\* The entity's business-key columns, in catalog order
KeyColumns(e) ==
    LET idx == {i \in 1..Len(entity_column_metadata) :
                   /\ entity_column_metadata[i] \in ColumnsOf(e)
                   /\ entity_column_metadata[i].is_business_key}
        ordered == SelectIdx(Len(entity_column_metadata), idx, <<>>)
    IN [n \in 1..Len(ordered) |-> entity_column_metadata[ordered[n]].column_name]

\* The business-key tuple of a silver or gold row of the entity
KeyTuple(e, row) == [n \in 1..Len(KeyColumns(e)) |-> row.vals[KeyColumns(e)[n]]]

\* The entity's historized table exists (state PRESENT)
Present(e) == gold[e].exists /\ gold[e].kind = "scd2"

\* The valid typed records of the entity
ValidTyped(e) ==
    IF silver[e].exists
    THEN {silver[e].rows[i] : i \in {j \in 1..Len(silver[e].rows) :
                                        silver[e].rows[j]._is_valid}}
    ELSE {}

\* The versions of a business key in a set of version records
VersionsOf(e, rows, k) == {r \in rows : KeyTuple(e, r) = k}

Open(r) == r._is_current /\ r._valid_to = NullTime

Closed(r) == r._valid_to # NullTime

\* The step just taken is a merge of the entity
MergeStep(e) == result'.op = "build_type2_dimension" /\ result'.entity = e

\* The records of gold' that the step inserted: their keys were not in gold
Inserted(e) ==
    {r \in gold'[e].rows : \A d \in gold[e].rows : d.key # r.key}

----------------------------------------------------------------------------
(* C1: idempotence of merge *)

\* The typed tier agrees with the open versions: every valid typed record has
\* an open version of its business key, and every open version of its
\* business key carries its content hash.
UnchangedInput(e) ==
    /\ Present(e)
    /\ silver[e].exists
    /\ \A s \in ValidTyped(e) :
          /\ \E d \in gold[e].rows : Open(d) /\ KeyTuple(e, d) = KeyTuple(e, s)
          /\ \A d \in gold[e].rows :
                (Open(d) /\ KeyTuple(e, d) = KeyTuple(e, s))
                    => d._row_hash = s._row_hash

\* C1: in any reachable state of the historized table, a merge whose valid
\* typed records carry, per business key, the content hash of the open
\* version reports 0 changed and 0 new rows, inserts nothing, closes nothing
\* and leaves the table as it was.
C1_MergeIdempotent ==
    [][(UnchangedInput("customer") /\ MergeStep("customer"))
          => /\ result'.status = "ok"
             /\ result'.updated_rows = 0
             /\ result'.new_rows = 0
             /\ gold'["customer"] = gold["customer"]]_vars

----------------------------------------------------------------------------
(* C2: one open version per business key *)

\* C2: after any sequence of load, process and merge calls, for every
\* business-key tuple the historized table holds at most one record with
\* _is_current = TRUE and _valid_to IS NULL.
C2_AtMostOneOpenVersion ==
    \A d1, d2 \in gold["customer"].rows :
        (/\ Open(d1)
         /\ Open(d2)
         /\ KeyTuple("customer", d1) = KeyTuple("customer", d2))
            => d1 = d2

----------------------------------------------------------------------------
(* C3: history preservation *)

\* C3: for every business-key tuple for which a merge detected a change,
\* exactly one record has _valid_to NULL and the number of closed records
\* equals the number of merges that detected a change for it.
C3_HistoryPreserved ==
    \A k \in DOMAIN detected["customer"] :
        detected["customer"][k] >= 1
            => LET versions == VersionsOf("customer", gold["customer"].rows, k)
               IN /\ Cardinality({r \in versions : r._valid_to = NullTime}) = 1
                  /\ Cardinality({r \in versions : Closed(r)})
                         = detected["customer"][k]

----------------------------------------------------------------------------
(* C4: atomicity of merge *)

\* C4: a merge that fails leaves the historized table exactly as it was
\* before the call: it exists iff it existed, nothing is closed or inserted.
C4_FailedMergeLeavesTable ==
    [][(MergeStep("customer") /\ result'.status # "ok")
          => gold'["customer"] = gold["customer"]]_vars

----------------------------------------------------------------------------
(* C5: changed-version handling *)

\* An open version and a valid typed record of the same business key
SameLine(e, d, s) == Open(d) /\ KeyTuple(e, d) = KeyTuple(e, s)

\* C5: on a merge in state PRESENT, an open version whose hash differs from
\* the valid typed record of its business key is closed (_is_current FALSE,
\* _valid_to set) and exactly one new open version with the typed record's
\* content is inserted; for a business key whose hash matches, no record is
\* modified and nothing is inserted.
C5_ChangedVersionHandling ==
    [][(Present("customer") /\ MergeStep("customer"))
          => \A d \in gold["customer"].rows : \A s \in ValidTyped("customer") :
                SameLine("customer", d, s)
                    => LET k == KeyTuple("customer", d)
                           new == VersionsOf("customer", Inserted("customer"), k)
                       IN IF d._row_hash # s._row_hash
                          THEN /\ \E c \in gold'["customer"].rows :
                                     /\ c.key = d.key
                                     /\ ~c._is_current
                                     /\ Closed(c)
                               /\ Cardinality(new) = 1
                               /\ \A n \in new : /\ n.vals = s.vals
                                                 /\ n._row_hash = s._row_hash
                                                 /\ Open(n)
                          ELSE (\A t \in ValidTyped("customer") :
                                   SameLine("customer", d, t)
                                       => d._row_hash = t._row_hash)
                                  => VersionsOf("customer", gold'["customer"].rows, k)
                                       = VersionsOf("customer", gold["customer"].rows, k)]_vars

----------------------------------------------------------------------------
(* C6: new-member insertion *)

\* C6: after a merge in state PRESENT, a business key that was absent from
\* the historized table and is present in a valid typed record has exactly
\* one record, open; and the open records of the keys whose hashes did not
\* change are all still there and current.
C6_NewMemberInsertion ==
    [][(Present("customer") /\ MergeStep("customer") /\ result'.status = "ok")
          => /\ \A s \in ValidTyped("customer") :
                   LET k == KeyTuple("customer", s)
                   IN VersionsOf("customer", gold["customer"].rows, k) = {}
                         => LET now_there ==
                                    VersionsOf("customer", gold'["customer"].rows, k)
                            IN /\ Cardinality(now_there) = 1
                               /\ \A n \in now_there : Open(n)
             /\ \A d \in gold["customer"].rows :
                   (/\ Open(d)
                    /\ \A s \in ValidTyped("customer") :
                          SameLine("customer", d, s) => d._row_hash = s._row_hash)
                       => d \in gold'["customer"].rows]_vars

----------------------------------------------------------------------------
(* C7: missing business key *)

\* The entity is registered as a type2_dimension and none of its catalog
\* columns is flagged is_business_key
NoBusinessKey(e) ==
    /\ \E m \in Range(entity_metadata) :
          m.entity_name = e /\ m.entity_type = "type2_dimension"
    /\ \A c \in ColumnsOf(e) : ~c.is_business_key

\* C7: a merge of a type2_dimension entity with zero is_business_key columns
\* fails with the missing-business-key error and creates no historized
\* table, no gold schema and no surrogate-key sequence, and changes no data.
C7_MissingBusinessKey ==
    [][(NoBusinessKey("customer") /\ MergeStep("customer"))
          => /\ result'.status = "MissingBusinessKey"
             /\ ~gold'["customer"].exists
             /\ "gold" \notin schemas'
             /\ key_seq'["customer"] = 0
             /\ UNCHANGED <<gold, schemas, key_seq, bronze, silver,
                            entity_metadata, entity_column_metadata>>]_vars

\* A merge of an entity without business key has failed while its typed tier
\* held two valid records
C7_Witness ==
    /\ NoBusinessKey("customer")
    /\ result.op = "build_type2_dimension"
    /\ result.status = "MissingBusinessKey"
    /\ Cardinality(ValidTyped("customer")) = 2

----------------------------------------------------------------------------
(* C8: first merge *)

\* How many valid typed records of the entity equal s
Copies(e, s) ==
    Cardinality({i \in 1..Len(silver[e].rows) :
                    silver[e].rows[i]._is_valid /\ silver[e].rows[i] = s})

\* The version record r carries the content of the typed record s
Carries(r, s) ==
    /\ r.vals = s.vals
    /\ r._row_hash = s._row_hash
    /\ r._load_date = s._load_date
    /\ r._valid_from = s._valid_from

\* The number of valid typed records of the entity
ValidCount(e) ==
    Cardinality({i \in 1..Len(silver[e].rows) : silver[e].rows[i]._is_valid})

\* C8: the first merge of an entity with a business key and a typed tier
\* (state ABSENT) creates the historized table with exactly one record per
\* valid typed record, every record open, reports total_rows = new_rows =
\* number of valid typed records and updated_rows = 0, and leaves the entity
\* in state PRESENT.
C8_FirstMerge ==
    [][(/\ ~gold["customer"].exists
        /\ silver["customer"].exists
        /\ ~NoBusinessKey("customer")
        /\ MergeStep("customer"))
          => /\ result'.status = "ok"
             /\ gold'["customer"].exists
             /\ gold'["customer"].kind = "scd2"
             /\ \A s \in ValidTyped("customer") :
                   Cardinality({r \in gold'["customer"].rows : Carries(r, s)})
                       = Copies("customer", s)
             /\ \A r \in gold'["customer"].rows :
                   /\ Open(r)
                   /\ \E s \in ValidTyped("customer") : Carries(r, s)
             /\ Cardinality(gold'["customer"].rows) = ValidCount("customer")
             /\ result'.total_rows = ValidCount("customer")
             /\ result'.new_rows = ValidCount("customer")
             /\ result'.updated_rows = 0]_vars

\* A first merge has inserted two records: only the initial path reports
\* new rows, and it reports them equal to the total
C8_Witness ==
    /\ result.op = "build_type2_dimension"
    /\ result.status = "ok"
    /\ result.new_rows = 2
    /\ result.total_rows = 2
    /\ Cardinality(gold["customer"].rows) = 2
    /\ key_seq["customer"] = 3

----------------------------------------------------------------------------
(* C9: composite business keys *)

\* The key combinations whose open version differs in hash from a valid
\* typed record of the same combination
ChangedLines(e) ==
    {KeyTuple(e, d) : d \in {x \in gold[e].rows :
        \E s \in ValidTyped(e) : SameLine(e, x, s) /\ x._row_hash # s._row_hash}}

----------------------------------------------------------------------------
(* C10: surrogate keys *)

\* The keys the entity's sequence has issued so far: it starts at 1 and
\* key_seq is its next value (0 while the sequence does not exist)
Issued(e) == 1..(key_seq[e] - 1)

\* Every record of the historized table has a key of its own, and a key the
\* sequence has issued
DistinctKeys(e) ==
    /\ \A d1, d2 \in gold[e].rows : d1.key = d2.key => d1 = d2
    /\ \A d \in gold[e].rows : d.key \in Issued(e)

\* A merge issues keys greater than every key issued before, one per record
\* it inserts, and never takes an issued key back
FreshKeys(e) ==
    MergeStep(e)
        => /\ key_seq'[e] >= key_seq[e]
           /\ \A n \in Inserted(e) :
                 /\ \A k \in Issued(e) : n.key > k
                 /\ \A d \in gold[e].rows : n.key > d.key
                 /\ n.key \in Issued(e)'
           /\ Cardinality(Inserted(e))
                 = Cardinality(Issued(e)' \ Issued(e))
           /\ \A d \in gold[e].rows : \E c \in gold'[e].rows : c.key = d.key

\* C10: across any sequence of merges of one entity every record of the
\* historized table has a distinct surrogate key, each key issued is greater
\* than every key issued before it, and a key once issued (also to a version
\* closed later) is never issued again.
C10_SurrogateKeys ==
    /\ []DistinctKeys("customer")
    /\ [][FreshKeys("customer")]_vars

\* A version was closed and its successor inserted next to another record:
\* keys 1 to 3 are issued, one of them to a closed version
C10_Witness ==
    /\ key_seq["customer"] = 4
    /\ Cardinality(gold["customer"].rows) = 3
    /\ \E d \in gold["customer"].rows : Closed(d)
    /\ {d.key : d \in gold["customer"].rows} = 1..3

----------------------------------------------------------------------------
(* C11: duplicate tie-break *)

\* The positions of the valid typed records of business key k
Duplicates(e, k) ==
    {i \in 1..Len(silver[e].rows) :
        silver[e].rows[i]._is_valid /\ KeyTuple(e, silver[e].rows[i]) = k}

\* C11: when several valid typed records of one snapshot share a business
\* key, a merge (first or later) creates at most one version record for that
\* key, and it carries the record with the latest ingest timestamp; no
\* version record is created for the earlier duplicates.
C11_DuplicateTieBreak ==
    [][(MergeStep("customer") /\ result'.status = "ok")
          => \A s \in ValidTyped("customer") :
                LET k == KeyTuple("customer", s)
                    new == VersionsOf("customer", Inserted("customer"), k)
                IN Cardinality(Duplicates("customer", k)) >= 2
                      => /\ Cardinality(new) <= 1
                         /\ \A n \in new :
                               \E i \in Duplicates("customer", k) :
                                  /\ Carries(n, silver["customer"].rows[i])
                                  /\ \A j \in Duplicates("customer", k) :
                                        silver["customer"].rows[j]._load_date
                                            <= silver["customer"].rows[i]._load_date]_vars

----------------------------------------------------------------------------
(* C14: validity flag *)

\* The step just taken is a process_silver_entity of the entity
ProcessStep(e) == result'.op = "process_silver_entity" /\ result'.entity = e

\* The entity is registered with at least one column and has a landing table
\* with every declared column
Processable(e) ==
    /\ ColumnsOf(e) # {}
    /\ bronze[e].exists
    /\ \A c \in ColumnsOf(e) : c.column_name \in SeqToSet(bronze[e].cols)

\* The declared column c of a landing row fails validation: its value does
\* not coerce to the declared type, or it is NULL after coercion although
\* the column is declared non-nullable
FailsColumn(landing, c) ==
    \/ /\ landing.vals[c.column_name] # Null
       /\ TryCast(landing.vals[c.column_name], c.data_type) = Null
    \/ /\ ~c.is_nullable
       /\ TryCast(landing.vals[c.column_name], c.data_type) = Null

\* C14: after process_silver_entity every landing row is retained in the
\* typed tier, with each value coerced (NULL where coercion failed), and its
\* _is_valid is FALSE exactly when some declared column failed to coerce or
\* a non-nullable column has a NULL coerced value.
C14_ValidityFlag ==
    [][(Processable("customer") /\ ProcessStep("customer"))
          => /\ silver'["customer"].exists
             /\ Len(silver'["customer"].rows) = Len(bronze["customer"].rows)
             /\ \A i \in 1..Len(bronze["customer"].rows) :
                   LET landing == bronze["customer"].rows[i]
                       typed == silver'["customer"].rows[i]
                   IN /\ \A c \in ColumnsOf("customer") :
                            typed.vals[c.column_name]
                                = TryCast(landing.vals[c.column_name], c.data_type)
                      /\ typed._is_valid
                            = ~(\E c \in ColumnsOf("customer") :
                                    FailsColumn(landing, c))]_vars

----------------------------------------------------------------------------
(* C15: row-level validation failures do not abort processing *)

\* C15: for a registered entity with at least one column and any landing
\* rows, process_silver_entity completes and reports total_rows = number of
\* landing rows = valid_rows + invalid_rows.
C15_ProcessingCompletes ==
    [][(Processable("customer") /\ ProcessStep("customer"))
          => /\ result'.status = "ok"
             /\ result'.total_rows = Len(bronze["customer"].rows)
             /\ result'.total_rows = result'.valid_rows + result'.invalid_rows]_vars

----------------------------------------------------------------------------
(* C19: catalog upsert *)

\* The entity_metadata rows of a name, before and after the step
RowsNamed(table, n) == {r \in Range(table) : r.entity_name = n}

\* One row per name and one name per id
UniqueEntities ==
    \A i, j \in 1..Len(entity_metadata) :
        (\/ entity_metadata[i].entity_name = entity_metadata[j].entity_name
         \/ entity_metadata[i].entity_id = entity_metadata[j].entity_id)
            => i = j

\* A call for name n leaves exactly one row of that name; it stores the
\* call's target schema, kind and description, keeps the entity_id the name
\* already had, returns that id, and leaves the rows of other names alone.
UpsertByName ==
    \A n \in EntityNames, k \in EntityTypes, d \in Descriptions :
        update_entity_metadata(n, "gold", k, d)
            => /\ Cardinality(RowsNamed(entity_metadata', n)) = 1
               /\ \A r \in RowsNamed(entity_metadata', n) :
                     /\ r.target_schema = "gold"
                     /\ r.entity_type = k
                     /\ r.description = (IF d = Null THEN "" ELSE d)
                     /\ result'.returned = r.entity_id
                     /\ \A old \in RowsNamed(entity_metadata, n) :
                           r.entity_id = old.entity_id
                     /\ \A other \in Range(entity_metadata) :
                           other.entity_name # n => other.entity_id # r.entity_id
               /\ \A other \in Range(entity_metadata) :
                     other.entity_name # n => other \in Range(entity_metadata')
               /\ result'.status = "ok"

\* C19: update_entity_metadata is keyed by entity name: after any number of
\* calls there is exactly one row per name, every call returns the entity_id
\* the first call assigned, distinct names have distinct ids, and the stored
\* kind, target schema and description are those of the most recent call.
C19_CatalogUpsert ==
    /\ []UniqueEntities
    /\ [][UpsertByName]_vars

\* The entity registered first was updated after a second one was
\* registered: the call returned id 1 while the sequence stands at 3
C19_Witness ==
    /\ result.op = "update_entity_metadata"
    /\ result.returned = 1
    /\ entity_metadata_seq = 3
    /\ Len(entity_metadata) = 2
    /\ entity_metadata[1].description = "customers"

----------------------------------------------------------------------------
(* C20: add_entity_column *)

\* The (entity, column name) pair is in the column catalog
Declared(n, column_name) ==
    \E c \in Range(entity_column_metadata) : \E m \in RowsNamed(entity_metadata, n) :
        c.entity_id = m.entity_id /\ c.column_name = column_name

\* C20: add_entity_column fails with the unknown-entity error for an
\* unregistered name and with a duplicate-column error for an (entity,
\* column name) pair already declared, leaving the column catalog unchanged;
\* a successful call adds exactly one row, which stores the given
\* is_business_key and track_history flags.
C20_AddEntityColumn ==
    [][\A n \in EntityNames, c \in Declarations :
          add_entity_column(n, c.column_name, c.data_type, c.is_nullable,
                            c.is_business_key, c.track_history)
              => IF RowsNamed(entity_metadata, n) = {}
                 THEN /\ result'.status = "EntityNotFound"
                      /\ entity_column_metadata' = entity_column_metadata
                 ELSE IF Declared(n, c.column_name)
                 THEN /\ result'.status = "ConstraintError"
                      /\ entity_column_metadata' = entity_column_metadata
                 ELSE /\ result'.status = "ok"
                      /\ Len(entity_column_metadata')
                            = Len(entity_column_metadata) + 1
                      /\ SubSeq(entity_column_metadata', 1,
                                Len(entity_column_metadata))
                            = entity_column_metadata
                      /\ LET added == entity_column_metadata'[Len(entity_column_metadata')]
                         IN /\ added.column_name = c.column_name
                            /\ added.is_business_key = c.is_business_key
                            /\ added.track_history = c.track_history
                            /\ \E m \in RowsNamed(entity_metadata, n) :
                                  added.entity_id = m.entity_id]_vars

\* A declaration of a column the entity already has was rejected
C20_Witness ==
    /\ result.op = "add_entity_column"
    /\ result.status = "ConstraintError"
    /\ Len(entity_column_metadata) >= 2

----------------------------------------------------------------------------
(* C13: exclusive write path *)

\* C13: once the entity's historized table exists, no call other than
\* build_type2_dimension (update_entity_metadata, add_entity_column,
\* load_bronze_entity, process_silver_entity, snapshot materialization
\* through build_gold_entity) changes, replaces or drops it.
C13_ExclusiveWritePath ==
    [][(Present("customer") /\ result'.op # "build_type2_dimension")
          => gold'["customer"] = gold["customer"]]_vars

----------------------------------------------------------------------------
(* C16: identifier rejection *)

\* The name matches [A-Za-z_][A-Za-z0-9_]* and has at most 63 characters
WellFormed(identifier) ==
    /\ IsWord(Spelling(identifier))
    /\ Len(Spelling(identifier)) <= MaxIdentifierLength

\* The call just made was given a name that is not well-formed: its entity
\* name, or, for the calls that read the catalog's columns, a column name of
\* the entity
GivenBadName ==
    \/ /\ result'.op \in {"load_bronze_entity", "process_silver_entity",
                          "build_gold_entity", "build_type2_dimension"}
       /\ ~WellFormed(result'.entity)
    \/ /\ result'.op \in {"process_silver_entity", "build_gold_entity",
                          "build_type2_dimension"}
       /\ \E c \in ColumnsOf(result'.entity) : ~WellFormed(c.column_name)

\* C16: a call of load_bronze_entity, process_silver_entity or
\* build_gold_entity that is given an entity name or catalog column name that
\* is not well-formed fails with the identifier error, and the schemas,
\* tables and sequences are as they were before the call.
C16_IdentifierRejection ==
    [][GivenBadName
          => /\ result'.status = "IdentifierError"
             /\ UNCHANGED <<schemas, bronze, silver, gold, key_seq>>]_vars

----------------------------------------------------------------------------
(* C12: retry safety *)

\* A version without its surrogate key
Version(r) ==
    [vals |-> r.vals, _valid_from |-> r._valid_from, _valid_to |-> r._valid_to,
     _is_current |-> r._is_current, _load_date |-> r._load_date,
     _row_hash |-> r._row_hash]

\* Two tables hold the same versions, each as many times
SameVersions(a, b) ==
    \A v \in {Version(r) : r \in a \cup b} :
        Cardinality({r \in a : Version(r) = v})
            = Cardinality({r \in b : Version(r) = v})

\* The call on connection c returns or raises in this step
Ends(c) == calls[c].pc # "idle" /\ calls'[c].pc = "idle"

\* C12: when a merge was interrupted by a storage failure after one of its
\* statements and merge is called again with the same typed tier, the table
\* the second call leaves holds the versions a single uninterrupted merge
\* would have produced, none twice and none missing.
C12_RetrySafety ==
    [][\A c \in Connections :
          (Ends(c) /\ calls[c].interrupted)
              => SameVersions(gold'[calls[c].entity].rows,
                              calls[c].serial.gold.rows)]_vars

----------------------------------------------------------------------------
(* C17: merges of one entity on two connections *)

\* C17: when merges of the same entity are interleaved statement by
\* statement, the table left by the one that ends last holds the versions
\* that the merges leave when they run one after the other; in particular a
\* business key with one current version there has one current version here.
C17_SameEntitySerialization ==
    [][\A c \in Connections :
          (Ends(c) /\ Concurrent(c, calls[c].entity) = {})
              => SameVersions(gold'[calls[c].entity].rows,
                              calls[c].serial.gold.rows)]_vars

----------------------------------------------------------------------------
(* C18: merges of different entities *)

\* The call on connection c executes a statement, returns or raises
Acts(c) == calls[c].pc # "idle" /\ calls'[c] # calls[c]

\* C18: when the statements of a merge of the customer dimension and of a
\* merge of the product dimension are interleaved, each merge leaves its
\* entity the historized table and the sequence and returns the counts that
\* it leaves and returns when it runs alone, and no statement of the merge of
\* one entity changes the table or the sequence of another.
C18_IndependentEntities ==
    [][\A c \in Connections :
          /\ Ends(c) =>
                LET e == calls[c].entity IN
                /\ gold'[gold_table(e)] = calls[c].serial.gold
                /\ key_seq'[key_seq_name(e)] = calls[c].serial.key_seq
                /\ result' = calls[c].serial.result
          /\ Acts(c) =>
                \A e \in EntityNames \ {calls[c].entity} :
                    /\ gold'[gold_table(e)] = gold[gold_table(e)]
                    /\ key_seq'[key_seq_name(e)] = key_seq[key_seq_name(e)]]_vars

\* The product merge has returned its counts while the customer merge stands
\* between closing a changed version and inserting its successor
C18_Witness ==
    /\ calls[1].pc = "insert_changed"
    /\ calls[1].updated_rows = 1
    /\ calls[2].pc = "idle"
    /\ result.entity = "product"
    /\ result.status = "ok"
    /\ result.total_rows = 1
    /\ \E r \in gold["customer"].rows : Closed(r)

----------------------------------------------------------------------------
(* C21: processing an entity the catalog does not describe *)

\* C21: process_silver_entity raises the entity-not-found error for an
\* entity that is not registered and the no-columns error for a registered
\* entity without columns, and in both cases it leaves the typed tier of the
\* entity as it was.
C21_UndescribedEntity ==
    [][\A e \in EntityNames :
          ProcessStep(e) =>
              /\ ~HasEntity(e) =>
                    result'.status = "EntityNotFound" /\ silver'[e] = silver[e]
              /\ (HasEntity(e) /\ ColumnsOf(e) = {}) =>
                    result'.status = "NoColumns" /\ silver'[e] = silver[e]]_vars

\* The no-columns error was raised for a registered entity while the other
\* entity, which has a column, has its typed tier
C21_Witness ==
    /\ result.op = "process_silver_entity"
    /\ result.status = "NoColumns"
    /\ HasEntity(result.entity)
    /\ ColumnsOf(result.entity) = {}
    /\ ~silver[result.entity].exists
    /\ \E e \in EntityNames : silver[e].exists

----------------------------------------------------------------------------
(* C22: the counts a merge reports *)

\* The business keys that had no version before the step and have one after
NewKeys(e) ==
    {k \in {KeyTuple(e, r) : r \in Inserted(e)} :
        VersionsOf(e, gold[e].rows, k) = {}}

\* The versions the step closed
ClosedByStep(e) ==
    {d \in gold[e].rows :
        /\ ~Closed(d)
        /\ \E x \in gold'[e].rows : x.key = d.key /\ Closed(x)}

\* C22: an incremental merge reports as new_rows the number of business keys
\* that were absent from the historized table and that it inserted, as
\* updated_rows the number of versions it closed, and as total_rows the
\* number of rows before the merge plus new_rows plus updated_rows.
C22_CountConsistency ==
    [][(Present("customer") /\ MergeStep("customer") /\ result'.status = "ok")
          => /\ result'.new_rows = Cardinality(NewKeys("customer"))
             /\ result'.updated_rows = Cardinality(ClosedByStep("customer"))
             /\ result'.total_rows =
                    Cardinality(gold["customer"].rows)
                        + result'.new_rows + result'.updated_rows]_vars

----------------------------------------------------------------------------
(* C23: no deletion, and closed versions are immutable *)

\* C23: a merge removes no record of the historized table, and a record whose
\* _valid_to is set is left by every later merge with all of its fields.
C23_ClosedVersionsImmutable ==
    [][MergeStep("customer") =>
          \A d \in gold["customer"].rows :
              /\ \E x \in gold'["customer"].rows : x.key = d.key
              /\ Closed(d) => d \in gold'["customer"].rows]_vars

\* Two versions were closed by two merges at different times
C23_Witness ==
    /\ result.op = "build_type2_dimension"
    /\ result.status = "ok"
    /\ \E d, x \in gold["customer"].rows :
          Closed(d) /\ Closed(x) /\ d._valid_to < x._valid_to

----------------------------------------------------------------------------
(* C24: _valid_from of a version *)

\* C24: every version record of the historized table has as _valid_from the
\* ingest timestamp the landing loader stamped on the row it was produced
\* from, which the version carries as _load_date.
C24_ValidFromIsIngestTime ==
    Present("customer") =>
        \A r \in gold["customer"].rows : r._valid_from = r._load_date

----------------------------------------------------------------------------
(* C25: what the content hash digests *)

\* The declared column names of the entity, in catalog order
CatalogOrder(e) == ColumnNames(ColumnMeta(EntityMeta(e).entity_id))

\* C25: the _row_hash of a landing row is the digest of the row's values
\* taken in catalog column order, whatever the column order of the
\* submitted row-set; _load_date and _row_hash are not digested.
C25_HashInCatalogOrder ==
    bronze["customer"].exists =>
        \A i \in 1..Len(bronze["customer"].rows) :
            bronze["customer"].rows[i]._row_hash
                = RowHash(bronze["customer"].rows[i].vals, CatalogOrder("customer"))

----------------------------------------------------------------------------
(* C26: dispatch on the stored kind *)

\* The step just taken is a build_gold_entity of the entity
BuildStep(e) ==
    /\ result'.op \in {"build_gold_entity", "build_type2_dimension"}
    /\ result'.entity = e

\* The positions of the valid typed records of the entity
ValidPositions(e) ==
    {i \in 1..Len(silver[e].rows) : silver[e].rows[i]._is_valid}

\* C26: build_gold_entity on an entity stored as type2_dimension does what
\* build_type2_dimension does and keeps every row of the target table; on an
\* entity of another kind, when it returns, the target table holds one row
\* per valid typed record, with its declared values, and nothing else.
C26_Dispatch ==
    [][BuildStep("customer") =>
          IF EntityMeta("customer").entity_type = "type2_dimension"
          THEN /\ gold'["customer"] = build_type2_dimension("customer").gold
               /\ key_seq'["customer"] = build_type2_dimension("customer").key_seq
               /\ result' = build_type2_dimension("customer").result
               /\ gold["customer"].exists =>
                     /\ gold'["customer"].kind = gold["customer"].kind
                     /\ \A d \in gold["customer"].rows :
                           \E x \in gold'["customer"].rows : x.key = d.key
          ELSE result'.status = "ok" =>
                  /\ Cardinality(gold'["customer"].rows)
                         = Cardinality(ValidPositions("customer"))
                  /\ result'.total_rows = Cardinality(ValidPositions("customer"))
                  /\ \A i \in ValidPositions("customer") :
                        \E r \in gold'["customer"].rows :
                            /\ r.key = i
                            /\ \A c \in ColumnsOf("customer") :
                                  r.vals[c.column_name]
                                      = silver["customer"].rows[i].vals[c.column_name]
                            /\ r._load_date = silver["customer"].rows[i]._load_date]_vars

\* A historized table that held versions has been replaced by a snapshot of
\* fewer rows
C26_Witness ==
    /\ result.op = "build_gold_entity"
    /\ result.status = "ok"
    /\ gold["customer"].kind = "snapshot"
    /\ key_seq["customer"] > 2
    /\ Cardinality(gold["customer"].rows) = 1

----------------------------------------------------------------------------
(* C27: validity windows *)

\* The end of the window [_valid_from, _valid_to): NULL is open-ended
WindowEnd(r) == IF r._valid_to = NullTime THEN MaxClock + 1 ELSE r._valid_to

\* The windows of two versions share a point in time
Overlap(d, x) ==
    /\ d._valid_from < WindowEnd(d)
    /\ x._valid_from < WindowEnd(x)
    /\ d._valid_from < WindowEnd(x)
    /\ x._valid_from < WindowEnd(d)

\* C27: the validity windows of two versions of one business key do not
\* overlap: a version that replaces a closed version starts no earlier than
\* the closed version ends.
C27_DisjointWindows ==
    Present("customer") =>
        \A d, x \in gold["customer"].rows :
            (d.key # x.key /\ KeyTuple("customer", d) = KeyTuple("customer", x))
                => ~Overlap(d, x)

----------------------------------------------------------------------------
(* C28: _is_current and _valid_to *)

\* C28: in every state of the historized table a record has _is_current =
\* TRUE exactly when its _valid_to is NULL.
C28_CurrentIffOpenEnded ==
    Present("customer") =>
        \A r \in gold["customer"].rows : r._is_current <=> r._valid_to = NullTime

\* The table holds a version that a merge closed and the version that the
\* same merge inserted for its business key
C28_Witness ==
    /\ Present("customer")
    /\ \E d, x \in gold["customer"].rows :
          /\ KeyTuple("customer", d) = KeyTuple("customer", x)
          /\ ~d._is_current /\ d._valid_to = 1
          /\ x._is_current /\ x._valid_to = NullTime
          /\ x._row_hash # d._row_hash

----------------------------------------------------------------------------
(* C29: business keys that the snapshot does not hold *)

\* The business keys that have versions in the historized table and no valid
\* typed record
MissingKeys(e) ==
    {KeyTuple(e, d) : d \in gold[e].rows} \ {KeyTuple(e, s) : s \in ValidTyped(e)}

\* C29: a merge leaves every record of a business key that has versions in
\* the historized table and no valid typed record as it is, and inserts
\* nothing for that key.
C29_MissingKeysUntouched ==
    [][(Present("customer") /\ MergeStep("customer")) =>
          \A k \in MissingKeys("customer") :
              VersionsOf("customer", gold'["customer"].rows, k)
                  = VersionsOf("customer", gold["customer"].rows, k)]_vars

\* A merge has inserted a version of key 2 while the snapshot holds no
\* record of key 1, whose open version is still in the table
C29_Witness ==
    /\ Present("customer")
    /\ result.op = "build_type2_dimension"
    /\ result.status = "ok"
    /\ <<"1">> \in MissingKeys("customer")
    /\ \E d \in gold["customer"].rows : KeyTuple("customer", d) = <<"1">> /\ Open(d)
    /\ \E x \in gold["customer"].rows : KeyTuple("customer", x) = <<"2">> /\ Open(x)

----------------------------------------------------------------------------
(* C30: track_history and the merge *)

\* The open version d of the entity and its valid typed record s have one
\* business key and differ in a value
ValueChanged(e, d, s) ==
    /\ Open(d)
    /\ KeyTuple(e, d) = KeyTuple(e, s)
    /\ \E c \in ColumnsOf(e) : d.vals[c.column_name] # s.vals[c.column_name]

\* C30: under two catalogs that differ in track_history flags only, the same
\* calls with the same arguments return the same counts and leave the same
\* landing rows, typed records and historized table; and a merge closes the
\* open version of a business key whose typed record differs from it in any
\* column, and inserts a version with the typed record's values.
C30_TrackHistoryWithoutEffect ==
    [][/\ result'.entity = "product" =>
             /\ result' = [result EXCEPT !.entity = "product"]
             /\ bronze'["product"] = bronze'["customer"]
             /\ silver'["product"] = silver'["customer"]
             /\ gold'["product"] = gold'["customer"]
             /\ key_seq'["product"] = key_seq'["customer"]
       /\ \A e \in EntityNames :
             (Present(e) /\ MergeStep(e) /\ result'.status = "ok") =>
                 \A d \in gold[e].rows : \A s \in ValidTyped(e) :
                     ValueChanged(e, d, s) =>
                         /\ \E x \in gold'[e].rows : x.key = d.key /\ Closed(x)
                         /\ \E r \in Inserted(e) : r.vals = s.vals /\ Open(r)]_vars

====
